---- MODULE Spec2Model ----
(***************************************************************************)
(* The TF frame graph of the Wrench panel (src/src/WrenchPanel.tsx): the   *)
(* tfTree map kept by updateTFTree, the breadth-first search of            *)
(* findTransformPath and the matrix composition of computeTransform.       *)
(***************************************************************************)
EXTENDS Integers, Sequences, FiniteSets, TLC

(***************************************************************************)
(* Input domains.                                                          *)
(***************************************************************************)

\* Frame identifiers that TF messages may name.
Frames == {"world", "base", "sensor"}

\* A frame identifier no TF message ever names.
UnknownFrame == "x"

\* Frame identifiers a resolution may be asked about.
QueryFrames == Frames \cup {UnknownFrame}

\* The value of an absent parent_frame_id (TFTreeNode.parent_frame_id?: string).
Undefined == "<undefined>"

\* header.stamp values of incoming transforms.
Stamps == {[sec |-> 0, nsec |-> 500], [sec |-> 1, nsec |-> 0]}

Vec3(x, y, z) == [x |-> x, y |-> y, z |-> z]

Quat(x, y, z, w) == [x |-> x, y |-> y, z |-> z, w |-> w]

\* Transforms carried by incoming messages: unit quaternions with integer
\* components (the identity and a half turn about z); the second is written
\* with the sign that matrix decomposition does not return.
TransformA == [translation |-> Vec3(1, 0, 0), rotation |-> Quat(0, 0, 0, 1)]

TransformB == [translation |-> Vec3(0, 1, 0), rotation |-> Quat(0, 0, -1, 0)]

Transforms == {TransformA, TransformB}

\* TransformStamped values (src/src/WrenchPanel.tsx:44-48).
TransformStampedSet ==
    { [header |-> [frame_id |-> p, stamp |-> s], child_frame_id |-> c, transform |-> t] :
        p \in Frames, c \in Frames, s \in Stamps, t \in Transforms }

\* The largest number of transforms one frame tick delivers.
MaxBatch == 2

\* The while loop of findTransformPath is cut after this many iterations.
MaxIterations == 8

(***************************************************************************)
(* THREE.Matrix4 restricted to its affine part (last row 0 0 0 1).         *)
(***************************************************************************)

Mat(n11, n12, n13, n14, n21, n22, n23, n24, n31, n32, n33, n34) ==
    [n11 |-> n11, n12 |-> n12, n13 |-> n13, n14 |-> n14,
     n21 |-> n21, n22 |-> n22, n23 |-> n23, n24 |-> n24,
     n31 |-> n31, n32 |-> n32, n33 |-> n33, n34 |-> n34]

\* new THREE.Matrix4().identity()
MatIdentity == Mat(1, 0, 0, 0,  0, 1, 0, 0,  0, 0, 1, 0)

\* Matrix4.compose(position, quaternion, scale) with scale (1, 1, 1).
MatCompose(p, q) ==
    LET x2 == q.x + q.x
        y2 == q.y + q.y
        z2 == q.z + q.z
        xx == q.x * x2
        xy == q.x * y2
        xz == q.x * z2
        yy == q.y * y2
        yz == q.y * z2
        zz == q.z * z2
        wx == q.w * x2
        wy == q.w * y2
        wz == q.w * z2
    IN  Mat(1 - (yy + zz), xy - wz,       xz + wy,       p.x,
            xy + wz,       1 - (xx + zz), yz - wx,       p.y,
            xz - wy,       yz + wx,       1 - (xx + yy), p.z)

\* Matrix4.multiply: a * b.
MatMultiply(a, b) ==
    Mat(a.n11 * b.n11 + a.n12 * b.n21 + a.n13 * b.n31,
        a.n11 * b.n12 + a.n12 * b.n22 + a.n13 * b.n32,
        a.n11 * b.n13 + a.n12 * b.n23 + a.n13 * b.n33,
        a.n11 * b.n14 + a.n12 * b.n24 + a.n13 * b.n34 + a.n14,
        a.n21 * b.n11 + a.n22 * b.n21 + a.n23 * b.n31,
        a.n21 * b.n12 + a.n22 * b.n22 + a.n23 * b.n32,
        a.n21 * b.n13 + a.n22 * b.n23 + a.n23 * b.n33,
        a.n21 * b.n14 + a.n22 * b.n24 + a.n23 * b.n34 + a.n24,
        a.n31 * b.n11 + a.n32 * b.n21 + a.n33 * b.n31,
        a.n31 * b.n12 + a.n32 * b.n22 + a.n33 * b.n32,
        a.n31 * b.n13 + a.n32 * b.n23 + a.n33 * b.n33,
        a.n31 * b.n14 + a.n32 * b.n24 + a.n33 * b.n34 + a.n34)

\* The determinant of the upper-left 3x3 block (the 4x4 determinant of an
\* affine matrix).
MatDeterminant(m) ==
      m.n11 * (m.n22 * m.n33 - m.n23 * m.n32)
    - m.n12 * (m.n21 * m.n33 - m.n23 * m.n31)
    + m.n13 * (m.n21 * m.n32 - m.n22 * m.n31)

\* Matrix4.invert: adjugate over determinant; the zero matrix when det = 0.
MatInvert(m) ==
    LET det == MatDeterminant(m)
        i11 == (m.n22 * m.n33 - m.n23 * m.n32) \div det
        i12 == (m.n13 * m.n32 - m.n12 * m.n33) \div det
        i13 == (m.n12 * m.n23 - m.n13 * m.n22) \div det
        i21 == (m.n23 * m.n31 - m.n21 * m.n33) \div det
        i22 == (m.n11 * m.n33 - m.n13 * m.n31) \div det
        i23 == (m.n13 * m.n21 - m.n11 * m.n23) \div det
        i31 == (m.n21 * m.n32 - m.n22 * m.n31) \div det
        i32 == (m.n12 * m.n31 - m.n11 * m.n32) \div det
        i33 == (m.n11 * m.n22 - m.n12 * m.n21) \div det
    IN  IF det = 0
        THEN Mat(0, 0, 0, 0,  0, 0, 0, 0,  0, 0, 0, 0)
        ELSE Mat(i11, i12, i13, -(i11 * m.n14 + i12 * m.n24 + i13 * m.n34),
                 i21, i22, i23, -(i21 * m.n14 + i22 * m.n24 + i23 * m.n34),
                 i31, i32, i33, -(i31 * m.n14 + i32 * m.n24 + i33 * m.n34))

\* Math.sqrt on the perfect squares that arise.
Sqrt(n) == CHOOSE r \in 0..n : r * r <= n /\ n < (r + 1) * (r + 1)

\* Quaternion.setFromRotationMatrix, m the rotation block.
SetFromRotationMatrix(m) ==
    LET trace == m.n11 + m.n22 + m.n33
    IN  IF trace > 0
        THEN LET r == Sqrt(trace + 1)
             IN  Quat((m.n32 - m.n23) \div (2 * r),
                      (m.n13 - m.n31) \div (2 * r),
                      (m.n21 - m.n12) \div (2 * r),
                      r \div 2)
        ELSE IF m.n11 > m.n22 /\ m.n11 > m.n33
        THEN LET s == 2 * Sqrt(1 + m.n11 - m.n22 - m.n33)
             IN  Quat(s \div 4,
                      (m.n12 + m.n21) \div s,
                      (m.n13 + m.n31) \div s,
                      (m.n32 - m.n23) \div s)
        ELSE IF m.n22 > m.n33
        THEN LET s == 2 * Sqrt(1 + m.n22 - m.n11 - m.n33)
             IN  Quat((m.n12 + m.n21) \div s,
                      s \div 4,
                      (m.n23 + m.n32) \div s,
                      (m.n13 - m.n31) \div s)
        ELSE LET s == 2 * Sqrt(1 + m.n33 - m.n11 - m.n22)
             IN  Quat((m.n13 + m.n31) \div s,
                      (m.n23 + m.n32) \div s,
                      s \div 4,
                      (m.n21 - m.n12) \div s)

\* Matrix4.decompose: position, quaternion (scale is dropped by the caller).
MatDecompose(m) ==
    LET sx0 == Sqrt(m.n11 * m.n11 + m.n21 * m.n21 + m.n31 * m.n31)
        sy  == Sqrt(m.n12 * m.n12 + m.n22 * m.n22 + m.n32 * m.n32)
        sz  == Sqrt(m.n13 * m.n13 + m.n23 * m.n23 + m.n33 * m.n33)
        sx  == IF MatDeterminant(m) < 0 THEN -sx0 ELSE sx0
        rot == Mat(m.n11 \div sx, m.n12 \div sy, m.n13 \div sz, 0,
                   m.n21 \div sx, m.n22 \div sy, m.n23 \div sz, 0,
                   m.n31 \div sx, m.n32 \div sy, m.n33 \div sz, 0)
    IN  [translation |-> Vec3(m.n14, m.n24, m.n34),
         rotation |-> SetFromRotationMatrix(rot)]

(***************************************************************************)
(* The Map<string, TFTreeNode>: entries in insertion order.                *)
(***************************************************************************)

MapKeys(tree) == { tree[i].key : i \in 1..Len(tree) }

MapHas(tree, k) == k \in MapKeys(tree)

MapIndex(tree, k) == CHOOSE i \in 1..Len(tree) : tree[i].key = k

\* Map.get for a key that is present.
MapGet(tree, k) == tree[MapIndex(tree, k)].node

\* Map.set: an existing key keeps its place, a new key goes last.
MapSet(tree, k, node) ==
    IF MapHas(tree, k)
    THEN [i \in 1..Len(tree) |->
             IF tree[i].key = k THEN [key |-> k, node |-> node] ELSE tree[i]]
    ELSE Append(tree, [key |-> k, node |-> node])

IdentityTransform ==
    [translation |-> Vec3(0, 0, 0), rotation |-> Quat(0, 0, 0, 1)]

NanosPerSec == 1000000000

\* transform.header.stamp.sec * 1e9 + transform.header.stamp.nsec
Timestamp(stamp) == stamp.sec * NanosPerSec + stamp.nsec

\* tfTree: the panel's TF tree state.  lastFrame: the frame tick last handed
\* to the render callback.  mentioned, namedAsChild: the frame ids that applied
\* transforms have named at all, and as child_frame_id (history).
\* updating, updaterTree, pending, preBatch: the setTfTree updater while it runs
\* (its working copy, the transforms it has still to apply, the tree it
\* started from).  resolved: the last resolution asked for, its result, and
\* how many transforms a running updater had applied when it was asked.
\* topics, sensorFrameId: the panel's states of those names.  topic,
\* fixedFrame: state.data.topic and state.data.fixedFrame.  sensorGroup: the
\* position and quaternion of sensorGroupRef.current.  subscription: the topics
\* of the last context.subscribe call.  effects: the effects whose
\* dependencies have changed and that have not run yet.
VARIABLES tfTree, lastFrame, mentioned, namedAsChild,
          updating, updaterTree, pending, preBatch, resolved,
          topics, topic, fixedFrame, sensorFrameId, sensorGroup,
          subscription, effects

graphVars == <<tfTree, lastFrame, mentioned, namedAsChild,
               updating, updaterTree, pending, preBatch, resolved>>

panelVars == <<topics, topic, fixedFrame, sensorFrameId, sensorGroup,
               subscription, effects>>

vars == <<tfTree, lastFrame, mentioned, namedAsChild,
          updating, updaterTree, pending, preBatch, resolved,
          topics, topic, fixedFrame, sensorFrameId, sensorGroup,
          subscription, effects>>

(***************************************************************************)
(* updateTFTree (lines 184-218).                                           *)
(***************************************************************************)

\* A frame tick's TF messages: one transform from the whole input domain, or
\* up to MaxBatch transforms from BatchTransforms, carried by one message or
\* by one message each.
BatchTransforms ==
    { [header |-> [frame_id |-> "world", stamp |-> [sec |-> 0, nsec |-> 500]],
       child_frame_id |-> "base", transform |-> TransformA],
      [header |-> [frame_id |-> "base", stamp |-> [sec |-> 1, nsec |-> 0]],
       child_frame_id |-> "sensor", transform |-> TransformB],
      [header |-> [frame_id |-> "sensor", stamp |-> [sec |-> 1, nsec |-> 0]],
       child_frame_id |-> "base", transform |-> TransformB] }

OneMessage(transforms) == << [transforms |-> transforms] >>

MessageEach(transforms) ==
    [i \in 1..Len(transforms) |-> [transforms |-> << transforms[i] >>]]

CurrentFrames ==
    { OneMessage(<< e >>) : e \in TransformStampedSet }
    \cup UNION { { OneMessage(es) : es \in [1..n -> BatchTransforms] }
                 \cup { MessageEach(es) : es \in [1..n -> BatchTransforms] } :
                 n \in 2..MaxBatch }

\* The node stored under the child frame (lines 195-200).
ChildNode(transform) ==
    [frame_id |-> transform.child_frame_id,
     parent_frame_id |-> transform.header.frame_id,
     transform |-> transform.transform,
     timestamp |-> Timestamp(transform.header.stamp)]

\* Mutant: the parent's node carries the child's frame id.
ParentNodeMisnamed(transform) ==
    [frame_id |-> transform.child_frame_id,
     parent_frame_id |-> Undefined,
     transform |-> IdentityTransform,
     timestamp |-> Timestamp(transform.header.stamp)]

\* The node stored under a parent frame not seen before (lines 204-211).
ParentNode(transform) ==
    [frame_id |-> transform.header.frame_id,
     parent_frame_id |-> Undefined,
     transform |-> IdentityTransform,
     timestamp |-> Timestamp(transform.header.stamp)]

\* Mutant: the parent's presence is tested before the child is stored.
ApplyTransformCheckFirst(newTree, transform) ==
    LET parentFrame == transform.header.frame_id
        childFrame == transform.child_frame_id
        hadParent == MapHas(newTree, parentFrame)
        withChild == MapSet(newTree, childFrame, ChildNode(transform))
    IN  IF ~hadParent
        THEN MapSet(withChild, parentFrame, ParentNode(transform))
        ELSE withChild

\* Mutant: a child node is kept when it carries a later timestamp.
ApplyTransformIfNewer(newTree, transform) ==
    LET parentFrame == transform.header.frame_id
        childFrame == transform.child_frame_id
        stale == /\ MapHas(newTree, childFrame)
                 /\ MapGet(newTree, childFrame).timestamp > Timestamp(transform.header.stamp)
        withChild == IF stale
                     THEN newTree
                     ELSE MapSet(newTree, childFrame, ChildNode(transform))
    IN  IF ~MapHas(withChild, parentFrame)
        THEN MapSet(withChild, parentFrame, ParentNode(transform))
        ELSE withChild

\* Mutant: the parent node is stored whether or not the parent is a key.
ApplyTransformAlwaysParent(newTree, transform) ==
    MapSet(MapSet(newTree, transform.child_frame_id, ChildNode(transform)),
           transform.header.frame_id, ParentNode(transform))

\* Mutant: only the child is stored, a parent not seen before gets no node.
ApplyTransformChildOnly(newTree, transform) ==
    MapSet(newTree, transform.child_frame_id, ChildNode(transform))

\* The body of the inner forEach (lines 190-212).
ApplyTransform(newTree, transform) ==
    LET parentFrame == transform.header.frame_id
        childFrame == transform.child_frame_id
        withChild == MapSet(newTree, childFrame, ChildNode(transform))
    IN  IF ~MapHas(withChild, parentFrame)
        THEN MapSet(withChild, parentFrame, ParentNode(transform))
        ELSE withChild

\* tfMsg.message.transforms.forEach (line 189).
RECURSIVE ApplyTransforms(_, _)
ApplyTransforms(newTree, transforms) ==
    IF transforms = << >>
    THEN newTree
    ELSE ApplyTransforms(ApplyTransform(newTree, Head(transforms)), Tail(transforms))

\* newTfMessages.forEach (line 188).
RECURSIVE ApplyMessages(_, _)
ApplyMessages(newTree, newTfMessages) ==
    IF newTfMessages = << >>
    THEN newTree
    ELSE ApplyMessages(ApplyTransforms(newTree, Head(newTfMessages).transforms),
                       Tail(newTfMessages))

\* Mutant: new Map() in place of new Map(prevTree).
CopyMapEmpty(prevTree) == << >>

\* new Map(prevTree) (line 186): every entry of prevTree, in its order.
CopyMap(prevTree) == prevTree

\* Mutant: the messages and their transforms are visited last to first.
updateTFTreeLastToFirst(prevTree, newTfMessages) ==
    LET Reverse(seq) == [i \in 1..Len(seq) |-> seq[Len(seq) + 1 - i]]
    IN  ApplyMessages(CopyMap(prevTree),
                      Reverse([i \in 1..Len(newTfMessages) |->
                                 [transforms |-> Reverse(newTfMessages[i].transforms)]]))

\* The updater handed to setTfTree.
updateTFTree(prevTree, newTfMessages) ==
    ApplyMessages(CopyMap(prevTree), newTfMessages)

(***************************************************************************)
(* findTransformPath (lines 221-258).                                      *)
(***************************************************************************)

\* Mutant: nothing is ever found in the visited set.
VisitedHasNever(visited, frame) == FALSE

\* visited.has(frame)
VisitedHas(visited, frame) == frame \in visited

\* Mutant: every node that has a parent counts as a child of the frame.
IsChildOfAnyParent(entry, frame) == entry.node.parent_frame_id # Undefined

\* The two tests of the forEach callback for one map entry (lines 246, 251).
IsChildOf(entry, frame) == entry.node.parent_frame_id = frame

IsParentOf(entry, frame) ==
    entry.key = entry.node.parent_frame_id /\ entry.node.frame_id = frame

\* tfTree.forEach from entry i on (lines 244-254): the queue after the pushes.
RECURSIVE ForEachNode(_, _, _, _, _, _)
ForEachNode(tree, i, queue, frame, path, visited) ==
    IF i > Len(tree)
    THEN queue
    ELSE LET entry == tree[i]
             item == [frame |-> entry.key, path |-> Append(path, entry.key)]
             q1 == IF IsChildOf(entry, frame) /\ ~VisitedHas(visited, entry.key)
                   THEN Append(queue, item)
                   ELSE queue
             q2 == IF IsParentOf(entry, frame) /\ ~VisitedHas(visited, entry.key)
                   THEN Append(q1, item)
                   ELSE q1
         IN  ForEachNode(tree, i + 1, q2, frame, path, visited)

\* The while loop (lines 230-255); iterations counts the passes made, and
\* terminated is FALSE when MaxIterations passes did not end the loop.
RECURSIVE SearchLoop(_, _, _, _, _)
SearchLoop(tree, queue, visited, targetFrame, iterations) ==
    IF queue = << >>
    THEN [path |-> << >>, iterations |-> iterations, terminated |-> TRUE]
    ELSE IF iterations >= MaxIterations
    THEN [path |-> << >>, iterations |-> iterations, terminated |-> FALSE]
    ELSE LET frame == Head(queue).frame
             path == Head(queue).path
             rest == Tail(queue)
         IN  IF frame = targetFrame
             THEN [path |-> path, iterations |-> iterations + 1, terminated |-> TRUE]
             ELSE IF VisitedHas(visited, frame)
             THEN SearchLoop(tree, rest, visited, targetFrame, iterations + 1)
             ELSE SearchLoop(tree,
                             ForEachNode(tree, 1, rest, frame, path, visited \cup {frame}),
                             visited \cup {frame}, targetFrame, iterations + 1)

\* The search as run, with its iteration count.
Search(tree, sourceFrame, targetFrame) ==
    IF sourceFrame = targetFrame
    THEN [path |-> << sourceFrame >>, iterations |-> 0, terminated |-> TRUE]
    ELSE SearchLoop(tree, << [frame |-> sourceFrame, path |-> << sourceFrame >>] >>,
                    {}, targetFrame, 0)

findTransformPath(tree, sourceFrame, targetFrame) ==
    Search(tree, sourceFrame, targetFrame).path

(***************************************************************************)
(* computeTransform (lines 261-346).                                       *)
(***************************************************************************)

\* The null result, and a Transform result.
Null == [present |-> FALSE]

Present(t) ==
    [present |-> TRUE, translation |-> t.translation, rotation |-> t.rotation]

\* The matrix of a Transform (lines 307-324).
TransformMatrix(transform) == MatCompose(transform.translation, transform.rotation)

\* Mutant: only the inverse transform is looked for.
EdgeTransformInverseOnly(tree, fromFrame, toFrame) ==
    IF MapHas(tree, fromFrame) /\ MapGet(tree, fromFrame).parent_frame_id = toFrame
    THEN [found |-> TRUE, transform |-> MapGet(tree, fromFrame).transform, inverse |-> TRUE]
    ELSE [found |-> FALSE]

\* Mutant: the inverse transform is looked for first.
EdgeTransformInverseFirst(tree, fromFrame, toFrame) ==
    IF MapHas(tree, fromFrame) /\ MapGet(tree, fromFrame).parent_frame_id = toFrame
    THEN [found |-> TRUE, transform |-> MapGet(tree, fromFrame).transform, inverse |-> TRUE]
    ELSE IF MapHas(tree, toFrame) /\ MapGet(tree, toFrame).parent_frame_id = fromFrame
    THEN [found |-> TRUE, transform |-> MapGet(tree, toFrame).transform, inverse |-> FALSE]
    ELSE [found |-> FALSE]

\* The edge lookup of one step (lines 285-300): the transform and its sense,
\* or found = FALSE.
EdgeTransform(tree, fromFrame, toFrame) ==
    IF MapHas(tree, toFrame) /\ MapGet(tree, toFrame).parent_frame_id = fromFrame
    THEN [found |-> TRUE, transform |-> MapGet(tree, toFrame).transform, inverse |-> FALSE]
    ELSE IF MapHas(tree, fromFrame) /\ MapGet(tree, fromFrame).parent_frame_id = toFrame
    THEN [found |-> TRUE, transform |-> MapGet(tree, fromFrame).transform, inverse |-> TRUE]
    ELSE [found |-> FALSE]

\* Mutant: resultTransform.premultiply(mat).
AccumulatePre(resultTransform, mat) == MatMultiply(mat, resultTransform)

\* resultTransform.multiply(mat) (line 332).
Accumulate(resultTransform, mat) == MatMultiply(resultTransform, mat)

\* Mutant: the source === target test never succeeds.
IsSameFrameNever(sourceFrame, targetFrame) == FALSE

\* sourceFrame === targetFrame (line 262).
IsSameFrame(sourceFrame, targetFrame) == sourceFrame = targetFrame

\* Mutant: an empty path is not taken as "no path".
NoPathFoundNever(path) == FALSE

\* path.length < 2 (line 272).
NoPathFound(path) == Len(path) < 2

\* The for loop over the path (lines 280-333): the matrix, or missing = TRUE.
RECURSIVE WalkPath(_, _, _, _)
WalkPath(tree, path, i, resultTransform) ==
    IF i > Len(path) - 1
    THEN [missing |-> FALSE, matrix |-> resultTransform]
    ELSE LET edge == EdgeTransform(tree, path[i], path[i + 1])
             mat0 == TransformMatrix(edge.transform)
             mat == IF edge.inverse THEN MatInvert(mat0) ELSE mat0
         IN  IF ~edge.found
             THEN [missing |-> TRUE]
             ELSE WalkPath(tree, path, i + 1, Accumulate(resultTransform, mat))

\* Mutant: a path of fewer than 2 elements gives the identity.
ComposePathShortIsIdentity(tree, path) ==
    LET walk == WalkPath(tree, path, 1, MatIdentity)
    IN  IF NoPathFound(path) THEN Present(IdentityTransform)
        ELSE IF walk.missing THEN Null
        ELSE Present(MatDecompose(walk.matrix))

\* computeTransform from the path on (lines 272-345).
ComposePath(tree, path) ==
    LET walk == WalkPath(tree, path, 1, MatIdentity)
    IN  IF NoPathFound(path)
        THEN Null
        ELSE IF walk.missing
        THEN Null
        ELSE Present(MatDecompose(walk.matrix))

computeTransform(tree, sourceFrame, targetFrame) ==
    IF IsSameFrame(sourceFrame, targetFrame)
    THEN Present(IdentityTransform)
    ELSE ComposePath(tree, findTransformPath(tree, sourceFrame, targetFrame))

(***************************************************************************)
(* The panel: the render callback applies a frame tick's TF messages.      *)
(***************************************************************************)

\* The transforms of a tick in the order the nested forEach visits them.
RECURSIVE TickTransforms(_)
TickTransforms(currentFrame) ==
    IF currentFrame = << >>
    THEN << >>
    ELSE Head(currentFrame).transforms \o TickTransforms(Tail(currentFrame))

\* History: the frame ids a tick names, as child and as child or parent.
ChildrenNamed(currentFrame) ==
    LET transforms == TickTransforms(currentFrame)
    IN  { transforms[i].child_frame_id : i \in 1..Len(transforms) }

FramesNamed(currentFrame) ==
    LET transforms == TickTransforms(currentFrame)
    IN  { transforms[i].child_frame_id : i \in 1..Len(transforms) }
        \cup { transforms[i].header.frame_id : i \in 1..Len(transforms) }

NoResolution == [source |-> "", target |-> "", result |-> Null, applied |-> 0]

\* A new THREE.Group (line 396): at the origin, not rotated.
NewGroup == [position |-> Vec3(0, 0, 0), quaternion |-> Quat(0, 0, 0, 1)]

\* The effects of the component, all of which run once after mounting.
Effects == {"updateSensorPosition", "subscribe", "selectDefaultTopic"}

Init ==
    /\ tfTree = << >>
    /\ lastFrame = << >>
    /\ mentioned = {}
    /\ namedAsChild = {}
    /\ updating = FALSE
    /\ updaterTree = << >>
    /\ pending = << >>
    /\ preBatch = << >>
    /\ resolved = NoResolution
    /\ topics = << >>
    /\ topic = Undefined
    /\ fixedFrame = "world"
    /\ sensorFrameId = ""
    /\ sensorGroup = NewGroup
    /\ subscription = {}
    /\ effects = Effects

\* context.onRender (lines 694-723) for a tick whose messages are TF messages:
\* the whole of updateTFTree in one step.
OnRender(currentFrame) ==
    /\ Len(currentFrame) > 0
    /\ tfTree' = updateTFTree(tfTree, currentFrame)
    /\ lastFrame' = currentFrame
    /\ mentioned' = mentioned \cup FramesNamed(currentFrame)
    /\ namedAsChild' = namedAsChild \cup ChildrenNamed(currentFrame)
    /\ UNCHANGED <<updating, updaterTree, pending, preBatch, resolved>>
    /\ UNCHANGED panelVars

Next == \E currentFrame \in CurrentFrames : OnRender(currentFrame)

Spec == Init /\ [][Next]_vars

(***************************************************************************)
(* The updater of setTfTree taken one transform at a time, with            *)
(* resolutions allowed between its steps.                                  *)
(***************************************************************************)

\* Frame ticks of up to MaxBatch transforms from BatchTransforms.
SnapshotFrames ==
    UNION { { OneMessage(es) : es \in [1..n -> BatchTransforms] }
            \cup { MessageEach(es) : es \in [1..n -> BatchTransforms] } :
            n \in 1..MaxBatch }

\* setTfTree calls the updater: newTree = new Map(prevTree) (lines 185-186).
BeginUpdate(currentFrame) ==
    /\ ~updating
    /\ Len(currentFrame) > 0
    /\ updating' = TRUE
    /\ updaterTree' = CopyMap(tfTree)
    /\ pending' = TickTransforms(currentFrame)
    /\ preBatch' = tfTree
    /\ lastFrame' = currentFrame
    /\ UNCHANGED <<tfTree, mentioned, namedAsChild, resolved>>
    /\ UNCHANGED panelVars

\* Mutant: the updater writes into the tree it was given.
ApplyNextInPlace ==
    /\ updating
    /\ pending # << >>
    /\ updaterTree' = ApplyTransform(updaterTree, Head(pending))
    /\ tfTree' = updaterTree'
    /\ pending' = Tail(pending)
    /\ UNCHANGED <<lastFrame, mentioned, namedAsChild, updating, preBatch, resolved>>
    /\ UNCHANGED panelVars

\* One call of the inner forEach callback on newTree (lines 189-213).
ApplyNext ==
    /\ updating
    /\ pending # << >>
    /\ updaterTree' = ApplyTransform(updaterTree, Head(pending))
    /\ pending' = Tail(pending)
    /\ UNCHANGED <<tfTree, lastFrame, mentioned, namedAsChild, updating, preBatch, resolved>>
    /\ UNCHANGED panelVars

\* return newTree (line 216): the new tree becomes the state.
ReturnNewTree ==
    /\ updating
    /\ pending = << >>
    /\ tfTree' = updaterTree
    /\ updating' = FALSE
    /\ updaterTree' = << >>
    /\ mentioned' = mentioned \cup FramesNamed(lastFrame)
    /\ namedAsChild' = namedAsChild \cup ChildrenNamed(lastFrame)
    /\ UNCHANGED <<lastFrame, pending, preBatch, resolved>>
    /\ UNCHANGED panelVars

\* The number of transforms a running updater has applied to its new tree.
Applied == IF updating THEN Len(TickTransforms(lastFrame)) - Len(pending) ELSE 0

\* Mutant: a frame asked about and not stored is given a node.
ResolveInserting(sourceFrame, targetFrame) ==
    /\ resolved' = [source |-> sourceFrame, target |-> targetFrame,
                    result |-> computeTransform(tfTree, sourceFrame, targetFrame),
                    applied |-> Applied]
    /\ tfTree' = IF MapHas(tfTree, targetFrame)
                 THEN tfTree
                 ELSE MapSet(tfTree, targetFrame,
                             [frame_id |-> targetFrame, parent_frame_id |-> Undefined,
                              transform |-> IdentityTransform, timestamp |-> 0])
    /\ UNCHANGED <<lastFrame, mentioned, namedAsChild,
                   updating, updaterTree, pending, preBatch>>
    /\ UNCHANGED panelVars

\* A call of computeTransform (lines 261-346), as updateSensorPosition makes
\* it (line 459): it reads tfTree and writes nothing but its result.
Resolve(sourceFrame, targetFrame) ==
    /\ resolved' = [source |-> sourceFrame, target |-> targetFrame,
                    result |-> computeTransform(tfTree, sourceFrame, targetFrame),
                    applied |-> Applied]
    /\ UNCHANGED <<tfTree, lastFrame, mentioned, namedAsChild,
                   updating, updaterTree, pending, preBatch>>
    /\ UNCHANGED panelVars

NextSnapshot ==
    \/ \E currentFrame \in SnapshotFrames : BeginUpdate(currentFrame)
    \/ ApplyNext
    \/ ReturnNewTree
    \/ \E sourceFrame \in Frames, targetFrame \in Frames :
          Resolve(sourceFrame, targetFrame)

SpecSnapshot == Init /\ [][NextSnapshot]_vars

(***************************************************************************)
(* The panel around the graph: topics, settings, subscriptions and the     *)
(* pose of the sensor group, with the effects that follow a change.        *)
(***************************************************************************)

WrenchSchemaNames ==
    {"geometry_msgs/msg/WrenchStamped", "geometry_msgs/WrenchStamped"}

TfSchemaNames == {"tf2_msgs/msg/TFMessage", "tf2_msgs/TFMessage", "tf/tfMessage"}

\* The topic lists a render state carries.
TopicLists ==
    { << >>,
      << [name |-> "/wrench_a", schemaName |-> "geometry_msgs/msg/WrenchStamped"] >>,
      << [name |-> "/imu", schemaName |-> "sensor_msgs/msg/Imu"],
         [name |-> "/wrench_b", schemaName |-> "geometry_msgs/WrenchStamped"],
         [name |-> "/wrench_a", schemaName |-> "geometry_msgs/msg/WrenchStamped"],
         [name |-> "/tf", schemaName |-> "tf2_msgs/msg/TFMessage"],
         [name |-> "/tf_static", schemaName |-> "tf/tfMessage"] >> }

\* The values a settings update gives the topic field.
TopicValues == {"/wrench_a", "/wrench_b"}

\* Frame ticks of one TF message with one transform.
PanelFrames == { OneMessage(<< e >>) : e \in BatchTransforms }

IsWrenchTopic(t) == t.schemaName \in WrenchSchemaNames

IsTfTopic(t) == t.schemaName \in TfSchemaNames

\* The useMemo filters of lines 128-144, with topics ?? [].
wrenchStampedTopics == SelectSeq(topics, IsWrenchTopic)

tfTopics == SelectSeq(topics, IsTfTopic)

\* The effects left to run after some of them were given changed dependencies.
Rerun(changed, names) == IF changed THEN effects \cup names ELSE effects

\* onRender: setTopics(renderState.topics) (line 697).
OnRenderTopics(newTopics) ==
    /\ topics' = newTopics
    /\ effects' = Rerun(newTopics # topics, {"subscribe", "selectDefaultTopic"})
    /\ UNCHANGED <<topic, fixedFrame, sensorFrameId, sensorGroup, subscription>>
    /\ UNCHANGED graphVars

\* onRender for a tick of TF messages (lines 699-721): the topic of the
\* message is one of tfTopics, and the new Map makes computeTransform new.
OnRenderTf(currentFrame) ==
    /\ Len(tfTopics) > 0
    /\ Len(currentFrame) > 0
    /\ tfTree' = updateTFTree(tfTree, currentFrame)
    /\ lastFrame' = currentFrame
    /\ mentioned' = mentioned \cup FramesNamed(currentFrame)
    /\ namedAsChild' = namedAsChild \cup ChildrenNamed(currentFrame)
    /\ effects' = Rerun(TRUE, {"updateSensorPosition"})
    /\ UNCHANGED <<updating, updaterTree, pending, preBatch, resolved>>
    /\ UNCHANGED <<topics, topic, fixedFrame, sensorFrameId, sensorGroup, subscription>>

\* onRender for a message on the selected topic (lines 710-714).
OnRenderWrench(frame_id) ==
    /\ topic # Undefined
    /\ sensorFrameId' = frame_id
    /\ effects' = Rerun(frame_id # sensorFrameId, {"updateSensorPosition"})
    /\ UNCHANGED <<topics, topic, fixedFrame, sensorGroup, subscription>>
    /\ UNCHANGED graphVars

\* actionHandler for an update of data.fixedFrame (lines 170-172).
UpdateFixedFrame(value) ==
    /\ fixedFrame' = value
    /\ effects' = Rerun(value # fixedFrame, {"updateSensorPosition"})
    /\ UNCHANGED <<topics, topic, sensorFrameId, sensorGroup, subscription>>
    /\ UNCHANGED graphVars

\* actionHandler for an update of data.topic (lines 170-177): the state is
\* set and context.subscribe is called with the topic alone.
UpdateTopic(value) ==
    /\ topic' = value
    /\ subscription' = {value}
    /\ effects' = Rerun(value # topic, {"subscribe", "selectDefaultTopic"})
    /\ UNCHANGED <<topics, fixedFrame, sensorFrameId, sensorGroup>>
    /\ UNCHANGED graphVars

\* updateSensorPosition (lines 454-470), run as an effect (lines 646-648).
UpdateSensorPosition ==
    /\ "updateSensorPosition" \in effects
    /\ effects' = effects \ {"updateSensorPosition"}
    /\ sensorGroup' =
          IF sensorFrameId = "" \/ sensorFrameId = fixedFrame
          THEN sensorGroup
          ELSE LET transform == computeTransform(tfTree, fixedFrame, sensorFrameId)
               IN  IF transform.present
                   THEN [position |-> transform.translation,
                         quaternion |-> transform.rotation]
                   ELSE sensorGroup
    /\ UNCHANGED <<topics, topic, fixedFrame, sensorFrameId, subscription>>
    /\ UNCHANGED graphVars

\* The subscribe effect (lines 665-681).
Subscribe ==
    /\ "subscribe" \in effects
    /\ effects' = effects \ {"subscribe"}
    /\ LET subscriptions ==
              (IF topic # Undefined THEN {topic} ELSE {})
              \cup { tfTopics[i].name : i \in 1..Len(tfTopics) }
       IN  subscription' = IF subscriptions # {} THEN subscriptions ELSE subscription
    /\ UNCHANGED <<topics, topic, fixedFrame, sensorFrameId, sensorGroup>>
    /\ UNCHANGED graphVars

\* The default topic effect (lines 684-690).
SelectDefaultTopic ==
    /\ "selectDefaultTopic" \in effects
    /\ IF topic = Undefined /\ Len(wrenchStampedTopics) > 0
       THEN /\ topic' = wrenchStampedTopics[1].name
            /\ effects' = effects \cup {"subscribe"}
       ELSE /\ topic' = topic
            /\ effects' = effects \ {"selectDefaultTopic"}
    /\ UNCHANGED <<topics, fixedFrame, sensorFrameId, sensorGroup, subscription>>
    /\ UNCHANGED graphVars

NextPanel ==
    \/ \E newTopics \in TopicLists : OnRenderTopics(newTopics)
    \/ \E currentFrame \in PanelFrames : OnRenderTf(currentFrame)
    \/ \E frame_id \in Frames : OnRenderWrench(frame_id)
    \/ \E value \in Frames : UpdateFixedFrame(value)
    \/ \E value \in TopicValues : UpdateTopic(value)
    \/ UpdateSensorPosition
    \/ Subscribe
    \/ SelectDefaultTopic

SpecPanel == Init /\ [][NextPanel]_vars

(***************************************************************************)
(* Definitions the properties are stated with.                             *)
(***************************************************************************)

\* The parent recorded for frame f, Undefined when f has no node or no parent.
ParentOf(tree, f) ==
    IF MapHas(tree, f) THEN MapGet(tree, f).parent_frame_id ELSE Undefined

\* f and g are joined by a parent/child edge, in either direction.
Adjacent(tree, f, g) == ParentOf(tree, f) = g \/ ParentOf(tree, g) = f

\* The frames joined to a frame of set by a chain of parent/child edges.
RECURSIVE Component(_, _)
Component(tree, set) ==
    LET next == set \cup { f \in MapKeys(tree) : \E g \in set : Adjacent(tree, f, g) }
    IN  IF next = set THEN set ELSE Component(tree, next)

Connected(tree, s, t) == t \in Component(tree, {s})

\* anc is reached from f by following at most n parent pointers (at least one).
RECURSIVE IsDescendant(_, _, _, _)
IsDescendant(tree, anc, f, n) ==
    /\ n > 0
    /\ MapHas(tree, f)
    /\ \/ ParentOf(tree, f) = anc
       \/ IsDescendant(tree, anc, ParentOf(tree, f), n - 1)

\* The product of the edge matrices from anc down to its descendant f, along
\* the parent pointers of f up to the first occurrence of anc.
RECURSIVE ChainMatrix(_, _, _)
ChainMatrix(tree, anc, f) ==
    IF ParentOf(tree, f) = anc
    THEN TransformMatrix(MapGet(tree, f).transform)
    ELSE MatMultiply(ChainMatrix(tree, anc, ParentOf(tree, f)),
                     TransformMatrix(MapGet(tree, f).transform))

Negated(q) == Quat(-q.x, -q.y, -q.z, -q.w)

\* The last transform of a frame tick.
LastTransform(frame) ==
    LET transforms == frame[Len(frame)].transforms
    IN  transforms[Len(transforms)]

\* C1 as stated: resolving from a parent to its child returns the child's
\* stored transform, component for component.
C1_ResolveEqualsStoredTransform ==
    \A a \in Frames, c \in Frames :
        (a # c /\ ParentOf(tfTree, c) = a)
            => computeTransform(tfTree, a, c) = Present(MapGet(tfTree, c).transform)

\* C1 (amended): for a frame c below a frame a, resolve(a, c) is present and is
\* the rigid transform of the product of the edge matrices taken from a down
\* to c; across a single edge it has the edge's translation and the edge's
\* rotation quaternion or its negation (the same rotation).
C1_ForwardComposition ==
    \A a \in Frames, c \in Frames :
        (a # c /\ IsDescendant(tfTree, a, c, Len(tfTree)))
            => LET r == computeTransform(tfTree, a, c)
                   t == MapGet(tfTree, c).transform
               IN  /\ r.present
                   /\ TransformMatrix(r) = ChainMatrix(tfTree, a, c)
                   /\ ParentOf(tfTree, c) = a
                        => /\ r.translation = t.translation
                           /\ r.rotation \in {t.rotation, Negated(t.rotation)}

\* A chain world -> base -> sensor with two different edge transforms has been
\* resolved end to end.
C1_Witness ==
    /\ ParentOf(tfTree, "base") = "world"
    /\ ParentOf(tfTree, "sensor") = "base"
    /\ ParentOf(tfTree, "world") = Undefined
    /\ MapGet(tfTree, "base").transform = TransformA
    /\ MapGet(tfTree, "sensor").transform = TransformB
    /\ computeTransform(tfTree, "world", "sensor")
         = Present([translation |-> Vec3(1, 1, 0), rotation |-> Quat(0, 0, 1, 0)])

\* C2 as stated: whenever resolve(a, c) is present, resolve(c, a) is present
\* and is its inverse.
C2_InverseLaw ==
    \A a \in Frames, c \in Frames :
        LET r == computeTransform(tfTree, a, c)
        IN  r.present
              => computeTransform(tfTree, c, a)
                   = Present(MatDecompose(MatInvert(TransformMatrix(r))))

\* C3 as stated: the path between two different frames is empty exactly when
\* no chain of parent/child edges, in any direction, joins them.
C3_UndirectedSearch ==
    \A s \in QueryFrames, t \in QueryFrames :
        s # t => (findTransformPath(tfTree, s, t) = << >> <=> ~Connected(tfTree, s, t))

\* C4: two different frames joined by no chain of parent/child edges, known to
\* the graph or not, resolve to the absent result.
C4_NoPathIsAbsent ==
    \A s \in QueryFrames, t \in QueryFrames :
        (s # t /\ ~Connected(tfTree, s, t)) => computeTransform(tfTree, s, t) = Null

\* Two frames of the graph lie in different components and resolve to absent.
C4_Witness ==
    \E s \in MapKeys(tfTree), t \in MapKeys(tfTree) :
        /\ s # t
        /\ ~Connected(tfTree, s, t)
        /\ computeTransform(tfTree, s, t) = Null
        /\ computeTransform(tfTree, UnknownFrame, t) = Null

\* C5: resolving a frame against itself gives the identity transform and the
\* one-element path, whatever the graph holds.
C5_SelfResolution ==
    \A f \in QueryFrames :
        /\ computeTransform(tfTree, f, f)
             = [present |-> TRUE,
                translation |-> [x |-> 0, y |-> 0, z |-> 0],
                rotation |-> [x |-> 0, y |-> 0, z |-> 0, w |-> 1]]
        /\ findTransformPath(tfTree, f, f) = << f >>

\* A frame stored with a parent and a non-identity transform, and a frame the
\* graph does not hold, have both been resolved against themselves.
C5_Witness ==
    /\ \E f \in MapKeys(tfTree) :
          /\ MapGet(tfTree, f).transform = TransformB
          /\ computeTransform(tfTree, f, f) = Present(IdentityTransform)
    /\ \E g \in Frames :
          /\ ~MapHas(tfTree, g)
          /\ computeTransform(tfTree, g, g) = Present(IdentityTransform)

\* The graph as a mapping: its keys and the node under each key.
Contents(tree) == { << tree[i].key, tree[i].node >> : i \in 1..Len(tree) }

\* C6: applying an update a second time changes nothing: the keys and the
\* nodes are those left by the first application.
C6_UpdateIdempotent ==
    \A u \in TransformStampedSet :
        LET once == updateTFTree(tfTree, OneMessage(<< u >>))
        IN  Contents(updateTFTree(once, OneMessage(<< u >>))) = Contents(once)

\* The graph holds all frames, the update applied last made a frame its own
\* parent, and applying it again leaves the graph as it is.
C6_Witness ==
    /\ Len(lastFrame) = 1
    /\ Len(lastFrame[1].transforms) = 1
    /\ LastTransform(lastFrame).child_frame_id = LastTransform(lastFrame).header.frame_id
    /\ MapKeys(tfTree) = Frames
    /\ Contents(updateTFTree(tfTree, lastFrame)) = Contents(tfTree)

\* C7: after a frame tick the node under the child of its last transform has
\* that transform's parent, transform and timestamp.
C7_LastWriteWins ==
    Len(lastFrame) > 0
        => LET u == LastTransform(lastFrame)
           IN  /\ MapHas(tfTree, u.child_frame_id)
               /\ MapGet(tfTree, u.child_frame_id)
                    = [frame_id |-> u.child_frame_id,
                       parent_frame_id |-> u.header.frame_id,
                       transform |-> u.transform,
                       timestamp |-> u.header.stamp.sec * 1000000000 + u.header.stamp.nsec]

\* base was stored with the later timestamp (which world's placeholder still
\* carries) and has been overwritten by an update with the earlier one.
C7_Witness ==
    /\ lastFrame = OneMessage(<< [header |-> [frame_id |-> "world",
                                              stamp |-> [sec |-> 0, nsec |-> 500]],
                                  child_frame_id |-> "base",
                                  transform |-> TransformB] >>)
    /\ MapKeys(tfTree) = {"world", "base"}
    /\ MapGet(tfTree, "world").parent_frame_id = Undefined
    /\ MapGet(tfTree, "world").timestamp = 1000000000
    /\ MapGet(tfTree, "base").timestamp = 500

\* C8: a single update whose parent differs from its child inserts, for a
\* parent that is not a key, a node with no parent, the identity transform and
\* the update's timestamp, and leaves the node of a parent that is a key as
\* it was.
C8_ParentPlaceholder ==
    [][ \A u \in TransformStampedSet :
          (lastFrame' = OneMessage(<< u >>) /\ u.header.frame_id # u.child_frame_id)
            => /\ MapHas(tfTree', u.header.frame_id)
               /\ IF MapHas(tfTree, u.header.frame_id)
                  THEN MapGet(tfTree', u.header.frame_id)
                         = MapGet(tfTree, u.header.frame_id)
                  ELSE MapGet(tfTree', u.header.frame_id)
                         = [frame_id |-> u.header.frame_id,
                            parent_frame_id |-> Undefined,
                            transform |-> IdentityTransform,
                            timestamp |-> Timestamp(u.header.stamp)] ]_vars

\* The last update named sensor as parent of another frame while sensor was
\* stored as a child of world, and sensor's node is still that child node.
C8_Witness ==
    /\ Len(lastFrame) = 1
    /\ Len(lastFrame[1].transforms) = 1
    /\ LastTransform(lastFrame).header.frame_id = "sensor"
    /\ LastTransform(lastFrame).child_frame_id = "base"
    /\ ParentOf(tfTree, "sensor") = "world"
    /\ MapGet(tfTree, "sensor").transform = TransformB
    /\ MapGet(tfTree, "world").parent_frame_id = Undefined
    /\ MapGet(tfTree, "world").transform = IdentityTransform

\* C9: no step removes a frame id from the graph.
C9_StoreOnlyGrows == [][MapKeys(tfTree) \subseteq MapKeys(tfTree')]_vars

\* A tick of two transforms has been applied to a graph that holds all frames.
C9_Witness ==
    /\ MapKeys(tfTree) = Frames
    /\ Len(lastFrame) = 2
    /\ \A f \in Frames : ParentOf(tfTree, f) # Undefined

\* C10: every search ends, after at most one pass per stored frame plus one,
\* also on graphs with a parent cycle or a self-parented frame.
C10_SearchTerminates ==
    \A s \in QueryFrames, t \in QueryFrames :
        LET run == Search(tfTree, s, t)
        IN  /\ run.terminated
            /\ run.iterations <= Len(tfTree) + 1

\* Two frames are each other's parent, a third is its own parent, and a search
\* from inside the cycle for a frame outside it ended with no path.
C10_Witness ==
    \E a \in Frames, b \in Frames, c \in Frames :
        /\ a # b
        /\ ParentOf(tfTree, a) = b
        /\ ParentOf(tfTree, b) = a
        /\ ParentOf(tfTree, c) = c
        /\ Search(tfTree, a, c).terminated
        /\ Search(tfTree, a, c).path = << >>
        /\ Search(tfTree, a, c).iterations = 2

(***************************************************************************)
(* C11: resolving a transform is read-only: a resolution leaves the stored *)
(* frame graph, and the tree an updater is building, exactly as they were. *)
(***************************************************************************)
C11_ResolveReadOnly ==
    [][resolved' # resolved =>
         /\ tfTree' = tfTree
         /\ updaterTree' = updaterTree]_vars

\* A resolution between two stored frames has been made and gave a transform.
C11_Witness ==
    /\ resolved.source # resolved.target
    /\ MapHas(tfTree, resolved.source)
    /\ MapHas(tfTree, resolved.target)
    /\ resolved.result.present

(***************************************************************************)
(* C12, as stated: whenever findTransformPath gives a path of fewer than   *)
(* 2 elements, computeTransform returns the identity transform.            *)
(***************************************************************************)
C12_DegeneratePathIsIdentity ==
    \A s \in QueryFrames, t \in QueryFrames :
        Len(findTransformPath(tfTree, s, t)) < 2
            => computeTransform(tfTree, s, t) = Present(IdentityTransform)

(***************************************************************************)
(* C12, amended: a one-element path is the path of a frame to itself and   *)
(* computeTransform returns the identity for it; an empty path (nothing    *)
(* found) makes computeTransform return null.                              *)
(***************************************************************************)
C12_DegeneratePaths ==
    \A s \in QueryFrames, t \in QueryFrames :
        LET path == findTransformPath(tfTree, s, t) IN
        /\ Len(path) = 1 =>
              /\ s = t
              /\ path = <<s>>
              /\ computeTransform(tfTree, s, t) = Present(IdentityTransform)
        /\ Len(path) = 0 => computeTransform(tfTree, s, t) = Null

\* Two stored frames with an empty path between them resolve to null, while
\* each has the one-element path to itself.
C12_Witness ==
    \E s \in MapKeys(tfTree), t \in MapKeys(tfTree) :
        /\ s # t
        /\ findTransformPath(tfTree, s, t) = << >>
        /\ computeTransform(tfTree, s, t) = Null
        /\ findTransformPath(tfTree, s, s) = <<s>>
        /\ computeTransform(tfTree, s, s) = Present(IdentityTransform)

\* The stored transform of f as a rigid transform read back from its matrix.
ForwardOf(tree, f) ==
    Present(MatDecompose(TransformMatrix(MapGet(tree, f).transform)))

\* The inverse of the stored transform of f, read back from its matrix.
InverseOf(tree, f) ==
    Present(MatDecompose(MatInvert(TransformMatrix(MapGet(tree, f).transform))))

\* Neither frame of the pair is stored as the child of the other.
BrokenEdge(tree, from, to) ==
    /\ ParentOf(tree, to) # from
    /\ ParentOf(tree, from) # to

(***************************************************************************)
(* C13: walking a path, a pair (from, to) with neither to's parent equal   *)
(* to from nor from's parent equal to to makes computeTransform return     *)
(* null, wherever in the path the pair stands; a forward edge gives to's   *)
(* transform as it is, a reverse edge the inverse of from's transform, and *)
(* when both hold the forward one is taken.                                *)
(***************************************************************************)
C13_BrokenEdgeIsAbsent ==
    \A from \in QueryFrames, to \in QueryFrames :
        /\ ParentOf(tfTree, to) = from =>
              ComposePath(tfTree, <<from, to>>) = ForwardOf(tfTree, to)
        /\ ParentOf(tfTree, to) # from /\ ParentOf(tfTree, from) = to =>
              ComposePath(tfTree, <<from, to>>) = InverseOf(tfTree, from)
        /\ BrokenEdge(tfTree, from, to) =>
              /\ ComposePath(tfTree, <<from, to>>) = Null
              /\ \A other \in QueryFrames :
                    /\ ComposePath(tfTree, <<other, from, to>>) = Null
                    /\ ComposePath(tfTree, <<from, to, other>>) = Null

\* Three stored frames: two are each other's parent and child with the two
\* senses giving different transforms, the third is joined to one of them by
\* a reverse edge only and to the other by no edge, so that a path through
\* it has one good step and one broken step.
C13_Witness ==
    \E a \in MapKeys(tfTree), b \in MapKeys(tfTree), c \in MapKeys(tfTree) :
        /\ a # b /\ b # c /\ a # c
        /\ ParentOf(tfTree, b) = a
        /\ ParentOf(tfTree, a) = b
        /\ ForwardOf(tfTree, b) # InverseOf(tfTree, a)
        /\ ComposePath(tfTree, <<a, b>>) = ForwardOf(tfTree, b)
        /\ ParentOf(tfTree, c) = a
        /\ ComposePath(tfTree, <<c, a>>) = InverseOf(tfTree, c)
        /\ BrokenEdge(tfTree, c, b)
        /\ ComposePath(tfTree, <<a, c, b>>) = Null

\* The transforms applied one after the other, each as a frame tick of its own.
RECURSIVE ApplySingly(_, _)
ApplySingly(tree, transforms) ==
    IF transforms = << >>
    THEN tree
    ELSE ApplySingly(updateTFTree(tree, OneMessage(<< Head(transforms) >>)),
                     Tail(transforms))

\* The last transform of the sequence that names the child frame.
LastNaming(transforms, childFrame) ==
    LET last == CHOOSE i \in 1..Len(transforms) :
                    /\ transforms[i].child_frame_id = childFrame
                    /\ \A j \in (i + 1)..Len(transforms) :
                          transforms[j].child_frame_id # childFrame
    IN  transforms[last]

(***************************************************************************)
(* C14: applying the transforms of one frame tick (its messages in order,  *)
(* the transforms of each message in order) gives the same tree as         *)
(* applying them one at a time as separate ticks, and a child named by     *)
(* several transforms of the tick gets the node of the last of them.       *)
(***************************************************************************)
C14_BatchIsSequential ==
    LET transforms == TickTransforms(lastFrame)
        batch == updateTFTree(preBatch, lastFrame)
    IN  /\ batch = ApplySingly(preBatch, transforms)
        /\ updating =>
              updaterTree = ApplySingly(preBatch, SubSeq(transforms, 1, Applied))
        /\ ~updating => tfTree = batch
        /\ \A childFrame \in ChildrenNamed(lastFrame) :
              MapGet(batch, childFrame) =
                  ChildNode(LastNaming(transforms, childFrame))

\* The tick last applied, to a tree that held frames already, named one
\* child twice, with different parents: the stored node is that of the
\* second transform, and the parent named by the first one is stored too.
C14_Witness ==
    LET transforms == TickTransforms(lastFrame) IN
    /\ ~updating
    /\ preBatch # << >>
    /\ Len(transforms) = 2
    /\ transforms[1].child_frame_id = transforms[2].child_frame_id
    /\ ChildNode(transforms[1]) # ChildNode(transforms[2])
    /\ MapGet(tfTree, transforms[2].child_frame_id) = ChildNode(transforms[2])
    /\ MapHas(tfTree, transforms[1].header.frame_id)

(***************************************************************************)
(* C15: the keys of the tree are exactly the frame ids that the transforms *)
(* applied so far have named, as child_frame_id or as header.frame_id: no  *)
(* other key exists and every frame id named has a node.                   *)
(***************************************************************************)
C15_KeysAreFramesNamed == MapKeys(tfTree) = mentioned

\* The tree holds a frame named as a child and a frame named only as a
\* parent, and not every frame has been named yet.
C15_Witness ==
    /\ \E childFrame \in namedAsChild : MapHas(tfTree, childFrame)
    /\ \E parentFrame \in mentioned \ namedAsChild : MapHas(tfTree, parentFrame)
    /\ \E f \in Frames : f \notin mentioned /\ ~MapHas(tfTree, f)

\* The tree that holds whole frame ticks only: the one the running updater
\* started from, or the one the last updater returned.
WholeBatchTree ==
    IF updating THEN preBatch ELSE updateTFTree(preBatch, lastFrame)

(***************************************************************************)
(* C16: the tree that findTransformPath and computeTransform read holds    *)
(* whole frame ticks only: it is the tree from before the tick until the   *)
(* updater returns and the tree with the whole tick applied from then on,  *)
(* with no state between; and a resolution takes its path and its edges    *)
(* from that one tree.                                                     *)
(***************************************************************************)
C16_WholeBatchesOnly ==
    /\ [](tfTree = WholeBatchTree)
    /\ [][tfTree' # tfTree =>
             /\ tfTree = preBatch
             /\ tfTree' = updateTFTree(preBatch, lastFrame)]_vars
    /\ [][resolved' # resolved =>
             resolved'.result =
                 IF resolved'.source = resolved'.target
                 THEN Present(IdentityTransform)
                 ELSE ComposePath(WholeBatchTree,
                                  findTransformPath(WholeBatchTree, resolved'.source,
                                                    resolved'.target))]_vars

\* An updater has applied the first of two transforms to its new tree, where
\* the frames asked about are already joined, and the resolution asked for
\* at that moment found no path, as in the tree from before the tick.
C16_Witness ==
    /\ updating
    /\ Len(pending) = 1
    /\ resolved.applied = 1
    /\ resolved.source # resolved.target
    /\ resolved.result = Null
    /\ computeTransform(updaterTree, resolved.source, resolved.target) # Null
    /\ tfTree = preBatch
    /\ updaterTree # tfTree

(***************************************************************************)
(* C17: for different source and target, a non-empty result of             *)
(* findTransformPath starts with the source, ends with the target, holds   *)
(* no frame id twice, and each two neighbouring elements are joined by a   *)
(* parent/child edge stored in the tree.                                   *)
(***************************************************************************)
C17_WellFormedPaths ==
    \A s \in QueryFrames, t \in QueryFrames :
        LET path == findTransformPath(tfTree, s, t) IN
        s # t /\ path # << >> =>
            /\ path[1] = s
            /\ path[Len(path)] = t
            /\ \A i \in 1..Len(path), j \in 1..Len(path) :
                  i # j => path[i] # path[j]
            /\ \A i \in 1..(Len(path) - 1) :
                  Adjacent(tfTree, path[i], path[i + 1])

\* A path of three frames has been found between two frames that no edge
\* joins directly.
C17_Witness ==
    \E s \in MapKeys(tfTree), t \in MapKeys(tfTree) :
        LET path == findTransformPath(tfTree, s, t) IN
        /\ s # t
        /\ Len(path) = 3
        /\ path[1] = s
        /\ path[3] = t
        /\ Adjacent(tfTree, path[1], path[2])
        /\ Adjacent(tfTree, path[2], path[3])
        /\ ~Adjacent(tfTree, s, t)

(***************************************************************************)
(* C18: for different source and target, computeTransform returns null     *)
(* exactly when findTransformPath returns the empty path: the walk along a *)
(* path that was found never misses an edge.                               *)
(***************************************************************************)
C18_MissingEdgeUnreachable ==
    \A s \in QueryFrames, t \in QueryFrames :
        LET path == findTransformPath(tfTree, s, t) IN
        s # t =>
            /\ computeTransform(tfTree, s, t) = Null <=> path = << >>
            /\ path # << >> => ~WalkPath(tfTree, path, 1, MatIdentity).missing

\* In one tree a path of two edges is walked to the end and gives a
\* transform, and the same two frames asked the other way round give the
\* empty path and null.
C18_Witness ==
    \E s \in MapKeys(tfTree), t \in MapKeys(tfTree) :
        /\ s # t
        /\ Len(findTransformPath(tfTree, s, t)) = 3
        /\ ~WalkPath(tfTree, findTransformPath(tfTree, s, t), 1, MatIdentity).missing
        /\ computeTransform(tfTree, s, t).present
        /\ findTransformPath(tfTree, t, s) = << >>
        /\ computeTransform(tfTree, t, s) = Null

(***************************************************************************)
(* C19: every node stored under a key has that key as its frame_id, and    *)
(* every parent_frame_id recorded on a node is a key of the tree, also     *)
(* after a frame was given another parent or was made its own parent.      *)
(***************************************************************************)
C19_GraphStructure ==
    \A i \in 1..Len(tfTree) :
        /\ tfTree[i].node.frame_id = tfTree[i].key
        /\ tfTree[i].node.parent_frame_id # Undefined =>
              MapHas(tfTree, tfTree[i].node.parent_frame_id)

\* One frame is its own parent, and a frame once named as a parent is the
\* parent of no node any more: its child has been given another parent.
C19_Witness ==
    /\ \E k \in MapKeys(tfTree) : ParentOf(tfTree, k) = k
    /\ \E r \in MapKeys(tfTree) :
          /\ ParentOf(tfTree, r) = Undefined
          /\ MapGet(tfTree, r).frame_id = r
          /\ \A k \in MapKeys(tfTree) : ParentOf(tfTree, k) # r

(***************************************************************************)
(* C20: a stored node has no parent_frame_id exactly when no applied       *)
(* transform has named its frame as child_frame_id; such a node carries    *)
(* the identity transform; and a node that has a parent never goes back to *)
(* having none.                                                            *)
(***************************************************************************)
C20_RootsAreNeverAChild ==
    /\ [](\A k \in MapKeys(tfTree) :
            /\ ParentOf(tfTree, k) = Undefined <=> k \notin namedAsChild
            /\ ParentOf(tfTree, k) = Undefined =>
                  MapGet(tfTree, k).transform = IdentityTransform)
    /\ [][\A k \in MapKeys(tfTree) :
             ParentOf(tfTree, k) # Undefined => ParentOf(tfTree', k) # Undefined]_vars

\* The tree holds a node without a parent, and the transform applied last
\* named as its parent a frame that has a parent of its own, which it kept.
C20_Witness ==
    /\ \E r \in MapKeys(tfTree) :
          /\ ParentOf(tfTree, r) = Undefined
          /\ r \notin namedAsChild
          /\ MapGet(tfTree, r).transform = IdentityTransform
    /\ lastFrame # << >>
    /\ LET last == LastTransform(lastFrame) IN
          /\ last.header.frame_id # last.child_frame_id
          /\ last.header.frame_id \in namedAsChild
          /\ ParentOf(tfTree, last.header.frame_id) # Undefined
          /\ MapGet(tfTree, last.header.frame_id).transform # IdentityTransform

(***************************************************************************)
(* C21: once updateSensorPosition has run again after a change of the      *)
(* tree, the fixed frame or the sensor frame, if computeTransform gives a  *)
(* transform from the fixed frame to the sensor frame (the identity for    *)
(* equal frames included), the sensor group has that transform's           *)
(* translation as position and its rotation as quaternion.                 *)
(***************************************************************************)
C21_PoseTracksResolution ==
    LET transform == computeTransform(tfTree, fixedFrame, sensorFrameId) IN
    /\ "updateSensorPosition" \notin effects
    /\ sensorFrameId # ""
    /\ transform.present
    => /\ sensorGroup.position = transform.translation
       /\ sensorGroup.quaternion = transform.rotation

(***************************************************************************)
(* C22: after any updates of the topic setting (the selected topic chosen  *)
(* again included) and any changes of the topic list, once the effects     *)
(* they make pending have run, the subscription holds the selected topic   *)
(* and every TF topic: the subscription to the topic alone that the        *)
(* action handler makes does not stay in effect while TF topics exist.     *)
(***************************************************************************)
C22_TfSubscriptionsSurvive ==
    effects \cap {"subscribe", "selectDefaultTopic"} = {} =>
        /\ topic # Undefined => topic \in subscription
        /\ \A i \in 1..Len(tfTopics) : tfTopics[i].name \in subscription

====
